---- MODULE Spec2Model ----
(***************************************************************************)
(* A model of scrapedocs.py: the breadth-first crawl loop of scrape_docs,  *)
(* the link classifier, the fragment-stripping step and the image cache of *)
(* get_markdown_content.                                                   *)
(*                                                                         *)
(* A URL string is modelled by its urlparse() result, a record             *)
(*   [scheme, netloc, path, query, frag]                                   *)
(* whose path is the sequence of the tokens of the path string: "/" is a   *)
(* token, a name is a token, an extension such as ".png" is a token, and   *)
(* the dot segments "." and ".." are tokens.  The network location is the  *)
(* sequence of its tokens too: the host name, then the port if it has one. *)
(* "" and <<>> are absent components.                                      *)
(***************************************************************************)
EXTENDS Integers, Sequences, FiniteSets, TLC

----------------------------------------------------------------------------
(* Strings and paths *)

Last(s) == s[Len(s)]

Front(s) == SubSeq(s, 1, Len(s) - 1)

\* The URL or reference made of these components.
Url(scheme, netloc, path, query, frag) ==
    [scheme |-> scheme, netloc |-> netloc, path |-> path, query |-> query, frag |-> frag]

\* The empty string, as urlparse("") returns it.
EmptyRef == Url("", <<>>, <<>>, "", "")

\* str.split('/') of a path: the segments between the "/" tokens; the empty
\* string splits into one empty segment.
RECURSIVE SplitFrom(_, _)
SplitFrom(p, cur) ==
    IF p = <<>> THEN <<cur>>
    ELSE IF Head(p) = "/" THEN <<cur>> \o SplitFrom(Tail(p), <<>>)
    ELSE SplitFrom(Tail(p), Append(cur, Head(p)))

Split(p) == SplitFrom(p, <<>>)

\* '/'.join(segments)
RECURSIVE Join(_)
Join(segs) ==
    IF segs = <<>> THEN <<>>
    ELSE IF Len(segs) = 1 THEN segs[1]
    ELSE segs[1] \o <<"/">> \o Join(Tail(segs))

\* filter(None, segments): the non-empty segments
RECURSIVE FilterNonEmpty(_)
FilterNonEmpty(segs) ==
    IF segs = <<>> THEN <<>>
    ELSE IF Head(segs) = <<>> THEN FilterNonEmpty(Tail(segs))
    ELSE <<Head(segs)>> \o FilterNonEmpty(Tail(segs))

\* segments[1:-1] = filter(None, segments[1:-1])
FilterMiddle(segs) ==
    IF Len(segs) <= 2 THEN segs
    ELSE <<segs[1]>> \o FilterNonEmpty(SubSeq(segs, 2, Len(segs) - 1)) \o <<Last(segs)>>

\* The loop of urljoin that removes the dot segments.
RECURSIVE Resolve(_, _)
Resolve(segs, acc) ==
    IF segs = <<>> THEN acc
    ELSE IF Head(segs) = <<"..">>
         THEN Resolve(Tail(segs), IF acc = <<>> THEN acc ELSE Front(acc))
    ELSE IF Head(segs) = <<".">> THEN Resolve(Tail(segs), acc)
    ELSE Resolve(Tail(segs), Append(acc, Head(segs)))

\* The index of the first "/" token of p, or Len(p) + 1.
RECURSIVE FirstSlash(_, _)
FirstSlash(p, i) ==
    IF i > Len(p) THEN i ELSE IF p[i] = "/" THEN i ELSE FirstSlash(p, i + 1)

\* urlparse() of a string that is a path: a path that begins with "//" is
\* read as a network location followed by a path.
ParsePath(p) ==
    IF Len(p) >= 2 /\ p[1] = "/" /\ p[2] = "/"
    THEN LET k == FirstSlash(p, 3)
         IN  Url("", SubSeq(p, 3, k - 1), SubSeq(p, k, Len(p)), "", "")
    ELSE Url("", <<>>, p, "", "")

----------------------------------------------------------------------------
(* urllib.parse *)

\* urllib.parse.uses_relative and uses_netloc, as far as the schemes of the
\* model go: "mailto" is in neither.
UsesRelative == {"", "http", "https", "ftp"}

UsesNetloc == {"", "http", "https", "ftp"}

\* urlunparse() puts a "/" before a path that follows a network location.
Unparse(u) ==
    IF u.netloc # <<>> /\ u.path # <<>> /\ u.path[1] # "/"
    THEN [u EXCEPT !.path = <<"/">> \o u.path]
    ELSE u

\* The path of urljoin(base, ref) when ref has a path.
JoinPath(bpath, path) ==
    LET bsplit    == Split(bpath)
        baseParts == IF Last(bsplit) # <<>> THEN Front(bsplit) ELSE bsplit
        segments  == IF path[1] = "/" THEN Split(path)
                     ELSE FilterMiddle(baseParts \o Split(path))
        resolved  == Resolve(segments, <<>>)
        closed    == IF Last(segments) \in {<<".">>, <<"..">>}
                     THEN Append(resolved, <<>>) ELSE resolved
        joined    == Join(closed)
    IN  IF joined = <<>> THEN <<"/">> ELSE joined

\* urllib.parse.urljoin(base, ref), ref given parsed.
urljoin(base, ref) ==
    IF base = EmptyRef THEN ref
    ELSE IF ref = EmptyRef THEN base
    ELSE LET scheme == IF ref.scheme = "" THEN base.scheme ELSE ref.scheme
         IN  IF scheme # base.scheme \/ scheme \notin UsesRelative THEN ref
             ELSE IF scheme \in UsesNetloc /\ ref.netloc # <<>>
                  THEN Unparse([ref EXCEPT !.scheme = scheme])
             ELSE IF ref.path = <<>>
                  THEN Unparse(Url(scheme, base.netloc, base.path,
                                   IF ref.query = "" THEN base.query ELSE ref.query,
                                   ref.frag))
             ELSE Unparse(Url(scheme, base.netloc, JoinPath(base.path, ref.path),
                              ref.query, ref.frag))

----------------------------------------------------------------------------
(* The inputs of a run: the seed URL, the site, the files of an earlier run *)

\* The longest list of links on one page, and of images in its content.
MaxLinks == 2

MaxImgs == 1

\* All sequences over S of length at most n.
SeqsUpTo(S, n) == UNION {[1..k -> S] : k \in 0..n}

Https(netloc, path, query, frag) == Url("https", netloc, path, query, frag)

\* A reference with nothing but a path, a query and a fragment.
Rel(path, query, frag) == Url("", <<>>, path, query, frag)

\* The seed URLs (--url): a root with an empty path, one with the path "/",
\* and one that is a bare host name, without a scheme.
Roots == {Https(<<"h">>, <<>>, "", ""), Https(<<"h">>, <<"/">>, "", ""), Rel(<<"h">>, "", "")}

\* No <title> tag in the page.
NoTitle == <<>>

\* A site is what its server may answer: the hrefs and the image sources
\* its pages draw from, their <title> texts (the parts between the "|"
\* characters) and what the page has of <main> and <body>.
FragmentSite ==
    [name    |-> "fragments",
     hrefs   |-> {Rel(<<>>, "", "a"), Rel(<<>>, "", "b")},
     imgs    |-> {},
     titles  |-> {<<"Doc">>},
     regions |-> {"main"}]

LinkSite ==
    [name    |-> "links",
     hrefs   |-> {Https(<<"x">>, <<"/", "a">>, "", ""),
                  Https(<<"h", ":8080">>, <<"/", "a">>, "", ""),
                  Https(<<"h">>, <<"/", "/", "x", "/", "a">>, "", ""),
                  Url("mailto", <<>>, <<"x">>, "", ""),
                  Rel(<<"/", "pic", ".png">>, "", ""),
                  Rel(<<"/", "a">>, "", "")},
     imgs    |-> {},
     titles  |-> {<<"Doc">>},
     regions |-> {"main"}]

ImageSite ==
    [name    |-> "images",
     hrefs   |-> {Rel(<<"/", "a">>, "", "")},
     imgs    |-> {Rel(<<"/", "i", ".png">>, "", ""), Rel(<<"j">>, "", "")},
     titles  |-> {<<"Doc">>},
     regions |-> {"main"}]

StructureSite ==
    [name    |-> "structure",
     hrefs   |-> {Rel(<<"/", "a">>, "", "")},
     imgs    |-> {},
     titles  |-> {NoTitle, <<"Doc">>, <<"Doc", "Site">>},
     regions |-> {"main", "body", "none"}]

\* Links to one path with two query strings.
QuerySite ==
    [name    |-> "queries",
     hrefs   |-> {Rel(<<"/", "a">>, "q", ""), Rel(<<"/", "a">>, "r", "")},
     imgs    |-> {},
     titles  |-> {<<"Doc">>},
     regions |-> {"main"}]

\* Relative links, to a directory and to a page beside the linking page.
RelativeSite ==
    [name    |-> "relative",
     hrefs   |-> {Rel(<<"d", "/">>, "", ""), Rel(<<"b">>, "", "")},
     imgs    |-> {},
     titles  |-> {<<"Doc">>},
     regions |-> {"main"}]

\* The two-page site: the root links to one subpage and to one external
\* page; the subpage and the external page have no links.
TwoPageSite ==
    [name    |-> "two_page",
     hrefs   |-> {Rel(<<"sub">>, "", ""), Https(<<"x">>, <<"/", "a">>, "", "")},
     imgs    |-> {},
     titles  |-> {<<"Doc">>},
     regions |-> {"main"}]

Sites == {FragmentSite, LinkSite, ImageSite, StructureSite, QuerySite, RelativeSite,
          TwoPageSite}

Page(hrefs, imgs, title, region) ==
    [hrefs |-> hrefs, imgs |-> imgs, title |-> title, region |-> region]

\* The pages the site may answer a GET of u with; none is a 4xx/5xx answer.
\* The fragment of u is not part of the request.
Pages(s, u) ==
    IF s.name = "two_page"
    THEN IF u.netloc = <<"h">> /\ u.path \in {<<>>, <<"/">>} /\ u.query = ""
         THEN {Page(<<Rel(<<"sub">>, "", ""), Https(<<"x">>, <<"/", "a">>, "", "")>>,
                    <<>>, <<"Doc">>, "main")}
         ELSE IF (u.netloc = <<"h">> /\ u.path = <<"/", "sub">>) \/ u.netloc = <<"x">>
         THEN {Page(<<>>, <<>>, <<"Doc">>, "main")}
         ELSE {}
    ELSE {Page(h, i, t, r) : h \in SeqsUpTo(s.hrefs, MaxLinks),
                             i \in SeqsUpTo(s.imgs, MaxImgs),
                             t \in s.titles, r \in s.regions}

----------------------------------------------------------------------------
(* The program *)

VARIABLES
    BASE_URL,              \* the seed URL
    site,                  \* the site that is crawled
    visited_urls,          \* the set of cleaned URLs that were popped
    urls_to_visit,         \* the frontier queue
    all_markdown_content,  \* the Markdown blocks, one per converted page
    toc_entries,           \* the titles, one per converted page
    url,                   \* the URL popped last
    base_url_only,         \* url, cleaned
    response,              \* the page fetched in this iteration
    files,                 \* the image directory: file name -> content
    output,                \* the output files written
    log,                   \* what the run did to the outside, in order
    pc                     \* where scrape_docs is

vars == <<BASE_URL, site, visited_urls, urls_to_visit, all_markdown_content,
          toc_entries, url, base_url_only, response, files, output, log, pc>>

\* No value (None).
None == [none |-> TRUE]

\* path.endswith(suffixes)
endswith(path, suffixes) == path # <<>> /\ Last(path) \in suffixes

Denylist == {".png", ".jpg", ".jpeg", ".gif", ".css", ".js", ".xml", ".rss", ".pdf", ".zip"}

is_valid(u) == u.netloc # <<>> /\ u.scheme # ""

\* is_internal_link without the test of the domain.
is_internal_link_AnyDomain(u) ==
    IF endswith(u.path, Denylist) THEN FALSE ELSE TRUE

\* is_internal_link without the test of the extension.
is_internal_link_AnyExtension(u) ==
    IF u.netloc # BASE_URL.netloc THEN FALSE ELSE TRUE

\* is_internal_link comparing the whole URL, not the network location.
is_internal_link_SameUrl(u) ==
    IF u # BASE_URL THEN FALSE
    ELSE IF endswith(u.path, Denylist) THEN FALSE
    ELSE TRUE

is_internal_link(u) ==
    IF u.netloc # BASE_URL.netloc THEN FALSE
    ELSE IF endswith(u.path, Denylist) THEN FALSE
    ELSE TRUE

\* urljoin(url, urlparse(url).path): the step that is to remove the fragment.
CleanUrl(u) == urljoin(u, ParsePath(u.path))

\* x in list
InList(x, list) == \E i \in 1..Len(list) : list[i] = x

\* The loop over the links of a fetched page: the queue it leaves.
RECURSIVE FindLinks(_, _)
FindLinks(hrefs, queue) ==
    IF hrefs = <<>> THEN queue
    ELSE LET full_url      == urljoin(BASE_URL, Head(hrefs))
             full_url_base == CleanUrl(full_url)
         IN  FindLinks(Tail(hrefs),
                 IF is_internal_link(full_url_base) /\ full_url_base \notin visited_urls
                 THEN IF ~InList(full_url_base, queue)
                      THEN Append(queue, full_url_base)
                      ELSE queue
                 ELSE queue)

\* hashlib.md5 of the URL string: a name that stands for the digest; two
\* URLs have one digest only if they are one string.
md5(u) == <<"md5", u>>

\* The extensions a file name may carry.
Extensions == Denylist \cup {".html"}

\* os.path.splitext(path)[1]: the extension of the last component, "" when
\* it has none or is nothing but the extension.
splitext(path) ==
    IF Len(path) >= 2 /\ Last(path) \in Extensions /\ path[Len(path) - 1] # "/"
    THEN Last(path) ELSE ""

\* The name of the file an image is cached in.
img_filename(img_url) ==
    LET ext == splitext(img_url.path)
    IN  [hash |-> md5(img_url), ext |-> IF ext # "" THEN ext ELSE ".png"]

\* os.path.exists on another path than the one that is written.
exists_Never(name, dir) == FALSE

\* os.path.exists made to answer only for a file that was written whole.
exists_Whole(name, dir) == name \in DOMAIN dir /\ dir[name] = "whole"

\* os.path.exists(img_fs_path)
exists(name, dir) == name \in DOMAIN dir

\* The events of the log.
GetEvent(u, ok) == [ev |-> "get", url |-> u, ok |-> ok]

ImgEvent(u) == [ev |-> "img", url |-> u]

\* How the request for an image ended.
ImgAnswer(u, outcome) == [ev |-> "answer", url |-> u, outcome |-> outcome]

\* print("An error occurred while processing ..."): get_markdown_content
\* caught an exception.
ErrorEvent(u) == [ev |-> "error", url |-> u]

SleepEvent == [ev |-> "sleep"]

WriteEvent == [ev |-> "write"]

\* How a request for an image ends: a 200 answer streamed to the file, a 200
\* answer whose stream breaks after the file is opened, another status, or
\* an exception raised by the request.
ImgOutcomes == {"ok", "broken", "status", "error"}

\* The loop over the images of the content: st is [files, log, srcs], oc
\* gives the outcome of the request for the i-th image, should one be made.
RECURSIVE DownloadImages(_, _, _, _, _)
DownloadImages(page_url, imgs, oc, i, st) ==
    IF i > Len(imgs) THEN st
    ELSE LET img_url == urljoin(page_url, imgs[i])
             name    == img_filename(img_url)
             cached  == exists(name, st.files)
             files2  == IF cached \/ oc[i] \in {"status", "error"} THEN st.files
                        ELSE (name :> (IF oc[i] = "ok" THEN "whole" ELSE "part")) @@ st.files
             log2    == IF cached THEN st.log
                        ELSE st.log \o <<ImgEvent(img_url), ImgAnswer(img_url, oc[i])>>
         IN  DownloadImages(page_url, imgs, oc, i + 1,
                 [files |-> files2, log |-> log2, srcs |-> Append(st.srcs, name)])

\* The title of the block: the <title> text up to the first "|", "index"
\* without a <title>.
page_title(title) == IF title = NoTitle THEN "index" ELSE title[1]

\* The links of the content, made absolute.
RECURSIVE AbsoluteLinks(_, _)
AbsoluteLinks(page_url, hrefs) ==
    IF hrefs = <<>> THEN <<>>
    ELSE <<urljoin(page_url, Head(hrefs))>> \o AbsoluteLinks(page_url, Tail(hrefs))

\* get_markdown_content without the fallback to <body>: a page without the
\* selected region gives nothing.
get_markdown_content_NoFallback(page_url, page, oc, exc) ==
    LET st0 == [files |-> files, log |-> log, srcs |-> <<>>]
        st  == DownloadImages(page_url, page.imgs, oc, 1, st0)
    IN  IF exc = "parse"
        THEN [result |-> None, files |-> files, log |-> Append(log, ErrorEvent(page_url))]
        ELSE IF page.region # "main"
        THEN [result |-> None, files |-> files, log |-> log]
        ELSE IF exc = "convert"
        THEN [result |-> None, files |-> st.files,
              log |-> Append(st.log, ErrorEvent(page_url))]
        ELSE [result |-> [title |-> page_title(page.title),
                          url   |-> page_url,
                          links |-> AbsoluteLinks(page_url, page.hrefs),
                          srcs  |-> st.srcs],
              files  |-> st.files,
              log    |-> st.log]

\* get_markdown_content(url, html_content): [result, files, log].  exc says
\* where an exception is raised: nowhere ("none"), while the page is parsed
\* ("parse"), or while the content is converted, after the images ("convert").
get_markdown_content(page_url, page, oc, exc) ==
    LET st0 == [files |-> files, log |-> log, srcs |-> <<>>]
        st  == DownloadImages(page_url, page.imgs, oc, 1, st0)
    IN  IF exc = "parse"
        THEN [result |-> None, files |-> files, log |-> Append(log, ErrorEvent(page_url))]
        ELSE IF page.region = "none"
        THEN [result |-> None, files |-> files, log |-> log]
        ELSE IF exc = "convert"
        THEN [result |-> None, files |-> st.files,
              log |-> Append(st.log, ErrorEvent(page_url))]
        ELSE [result |-> [title |-> page_title(page.title),
                          url   |-> page_url,
                          links |-> AbsoluteLinks(page_url, page.hrefs),
                          srcs  |-> st.srcs],
              files  |-> st.files,
              log    |-> st.log]

\* The URLs requests can send a GET to: the others raise MissingSchema,
\* InvalidSchema or InvalidURL, which are RequestExceptions.
Fetchable(u) == u.scheme \in {"http", "https"} /\ u.netloc # <<>>

\* The files an earlier run of the site may have left in the image directory.
OldFiles(s) ==
    {<<>>} \cup
    {(img_filename(urljoin(Https(<<"h">>, <<"/">>, "", ""), i)) :> "old") : i \in s.imgs}

Init ==
    /\ BASE_URL \in Roots
    /\ site \in Sites
    /\ visited_urls = {}
    /\ urls_to_visit = <<BASE_URL>>
    /\ all_markdown_content = <<>>
    /\ toc_entries = <<>>
    /\ url = None
    /\ base_url_only = None
    /\ response = None
    /\ files \in OldFiles(site)
    /\ output = <<>>
    /\ log = <<>>
    /\ pc = "loop"

\* The loop popping the tail of the list (urls_to_visit.pop()).
Pop_Lifo ==
    /\ pc = "loop"
    /\ urls_to_visit # <<>>
    /\ url' = Last(urls_to_visit)
    /\ urls_to_visit' = Front(urls_to_visit)
    /\ base_url_only' = CleanUrl(url')
    /\ IF base_url_only' \in visited_urls
       THEN /\ pc' = "loop"
            /\ UNCHANGED visited_urls
       ELSE /\ pc' = "fetch"
            /\ visited_urls' = visited_urls \cup {base_url_only'}
    /\ UNCHANGED <<BASE_URL, site, all_markdown_content, toc_entries, response,
                   files, output, log>>

\* while urls_to_visit: pop the head, clean it, skip it if it was visited,
\* else mark it visited.
Pop ==
    /\ pc = "loop"
    /\ urls_to_visit # <<>>
    /\ url' = Head(urls_to_visit)
    /\ urls_to_visit' = Tail(urls_to_visit)
    /\ base_url_only' = CleanUrl(url')
    /\ IF base_url_only' \in visited_urls
       THEN /\ pc' = "loop"
            /\ UNCHANGED visited_urls
       ELSE /\ pc' = "fetch"
            /\ visited_urls' = visited_urls \cup {base_url_only'}
    /\ UNCHANGED <<BASE_URL, site, all_markdown_content, toc_entries, response,
                   files, output, log>>

\* A handler that takes the URL out of visited_urls, to have it tried again.
FetchFail_Forget ==
    /\ pc = "fetch"
    /\ log' = Append(log, GetEvent(url, FALSE))
    /\ visited_urls' = visited_urls \ {base_url_only}
    /\ pc' = "loop"
    /\ UNCHANGED <<BASE_URL, site, urls_to_visit, all_markdown_content,
                   toc_entries, url, base_url_only, response, files, output>>

\* No handler: the exception ends the run.
FetchFail_Raise ==
    /\ pc = "fetch"
    /\ log' = Append(log, GetEvent(url, FALSE))
    /\ pc' = "killed"
    /\ UNCHANGED <<BASE_URL, site, visited_urls, urls_to_visit, all_markdown_content,
                   toc_entries, url, base_url_only, response, files, output>>

\* session.get or raise_for_status raises a RequestException: the handler
\* logs it and the loop goes on.
FetchFail ==
    /\ pc = "fetch"
    /\ log' = Append(log, GetEvent(url, FALSE))
    /\ pc' = "loop"
    /\ UNCHANGED <<BASE_URL, site, visited_urls, urls_to_visit, all_markdown_content,
                   toc_entries, url, base_url_only, response, files, output>>

\* session.get answers with a page.
FetchOk ==
    /\ pc = "fetch"
    /\ Fetchable(url)
    /\ \E page \in Pages(site, url) : response' = page
    /\ log' = Append(log, GetEvent(url, TRUE))
    /\ pc' = "convert"
    /\ UNCHANGED <<BASE_URL, site, visited_urls, urls_to_visit, all_markdown_content,
                   toc_entries, url, base_url_only, files, output>>

\* toc_entries.append(title), skipping a title that is in the list.
toc_append_Unique(toc, title) == IF InList(title, toc) THEN toc ELSE Append(toc, title)

\* toc_entries.append(title)
toc_append(toc, title) == Append(toc, title)

\* content_data = get_markdown_content(...); if content_data: append both.
Convert ==
    /\ pc = "convert"
    /\ \E oc \in [1..Len(response.imgs) -> ImgOutcomes], exc \in {"none", "parse", "convert"} :
          LET r == get_markdown_content(base_url_only, response, oc, exc)
          IN  /\ files' = r.files
              /\ log' = r.log
              /\ IF r.result # None
                 THEN /\ all_markdown_content' = Append(all_markdown_content, r.result)
                      /\ toc_entries' = toc_append(toc_entries, r.result.title)
                 ELSE UNCHANGED <<all_markdown_content, toc_entries>>
    /\ pc' = "links"
    /\ UNCHANGED <<BASE_URL, site, visited_urls, urls_to_visit, url, base_url_only,
                   response, output>>

\* The links step leaving out the page whose conversion failed.
Links_SkipFailed ==
    /\ pc = "links"
    /\ urls_to_visit' = IF Last(log).ev = "error" THEN urls_to_visit
                        ELSE FindLinks(response.hrefs, urls_to_visit)
    /\ pc' = "sleep"
    /\ UNCHANGED <<BASE_URL, site, visited_urls, all_markdown_content, toc_entries,
                   url, base_url_only, response, files, output, log>>

\* for link in soup.find_all('a', href=True): ...
Links ==
    /\ pc = "links"
    /\ urls_to_visit' = FindLinks(response.hrefs, urls_to_visit)
    /\ pc' = "sleep"
    /\ UNCHANGED <<BASE_URL, site, visited_urls, all_markdown_content, toc_entries,
                   url, base_url_only, response, files, output, log>>

\* time.sleep(DELAY); the response is not read again.
Sleep ==
    /\ pc = "sleep"
    /\ log' = Append(log, SleepEvent)
    /\ response' = None
    /\ pc' = "loop"
    /\ UNCHANGED <<BASE_URL, site, visited_urls, urls_to_visit, all_markdown_content,
                   toc_entries, url, base_url_only, files, output>>

\* The output written inside the loop, whatever the queue holds.
WriteOutput_AnyTime ==
    /\ pc = "loop"
    /\ output' = Append(output, [toc |-> toc_entries, blocks |-> all_markdown_content])
    /\ log' = Append(log, WriteEvent)
    /\ pc' = "done"
    /\ UNCHANGED <<BASE_URL, site, visited_urls, urls_to_visit, all_markdown_content,
                   toc_entries, url, base_url_only, response, files>>

\* The loop has ended: the table of contents and the blocks are written.
WriteOutput ==
    /\ pc = "loop"
    /\ urls_to_visit = <<>>
    /\ output' = Append(output, [toc |-> toc_entries, blocks |-> all_markdown_content])
    /\ log' = Append(log, WriteEvent)
    /\ pc' = "done"
    /\ UNCHANGED <<BASE_URL, site, visited_urls, urls_to_visit, all_markdown_content,
                   toc_entries, url, base_url_only, response, files>>

\* The process is killed before it has ended.
Kill ==
    /\ pc \notin {"done", "killed"}
    /\ pc' = "killed"
    /\ UNCHANGED <<BASE_URL, site, visited_urls, urls_to_visit, all_markdown_content,
                   toc_entries, url, base_url_only, response, files, output, log>>

\* The steps of a run that nothing interrupts.
Run == Pop \/ FetchFail \/ FetchOk \/ Convert \/ Links \/ Sleep \/ WriteOutput

Next == Run \/ Kill

Spec == Init /\ [][Next]_vars

\* The interpreter takes the next step: scrape_docs does not stay where it
\* is.  From each place but the end a step to another place is possible
\* whatever the state (a fetch may always fail), and at the head of the loop
\* a pop is possible while the queue is not empty.
Proceed ==
    \/ pc = "loop" /\ pc' \in {"fetch", "done"}
    \/ pc = "fetch" /\ pc' \in {"loop", "convert"}
    \/ pc = "convert" /\ pc' = "links"
    \/ pc = "links" /\ pc' = "sleep"
    \/ pc = "sleep" /\ pc' = "loop"

\* A run that is not killed.
LiveSpec == Init /\ [][Run]_vars /\ WF_vars(Pop) /\ WF_pc(Proceed)

----------------------------------------------------------------------------
(* The claims *)

\* The positions of the page requests in the log.
Gets == {i \in 1..Len(log) : log[i].ev = "get"}

\* A URL with its fragment identifier removed and nothing else changed.
WithoutFragment(u) == [u EXCEPT !.frag = ""]

\* The port tokens of the model, and the host name of a network location.
Ports == {":8080"}

hostname(netloc) ==
    IF netloc # <<>> /\ Last(netloc) \in Ports THEN Front(netloc) ELSE netloc

\* The cleaned URL link discovery makes of an href.
Discovered(href) == CleanUrl(urljoin(BASE_URL, href))

\* C1: during a run no two page fetches are made for URLs that differ only
\* by their fragment, and visited_urls never holds two fragment-variants of
\* one page, whatever the shape of the URL.
C1_NoFragmentVariants ==
    /\ \A i, j \in Gets :
          i # j => WithoutFragment(log[i].url) # WithoutFragment(log[j].url)
    /\ \A u, v \in visited_urls :
          u # v => WithoutFragment(u) # WithoutFragment(v)

\* C2: no URL whose host differs from the host of the root URL is ever in
\* the frontier queue or fetched.
C2_NoForeignHost ==
    /\ \A i \in 1..Len(urls_to_visit) :
          hostname(urls_to_visit[i].netloc) = hostname(BASE_URL.netloc)
    /\ \A i \in Gets : hostname(log[i].url.netloc) = hostname(BASE_URL.netloc)

\* A page with a link to another host was fetched and its links were read.
C2_Witness ==
    /\ pc = "sleep"
    /\ \E i \in 1..Len(response.hrefs) :
          LET u == urljoin(BASE_URL, response.hrefs[i])
          IN  u.netloc # <<>> /\ hostname(u.netloc) # hostname(BASE_URL.netloc)

\* C3 as stated: the links step accepts (enqueues, unless visited or queued)
\* a discovered URL iff it has a scheme and a host, its host equals the
\* host of the root URL and its path ends in no denylisted extension.
EligibleByHost(u) ==
    /\ is_valid(u)
    /\ hostname(u.netloc) = hostname(BASE_URL.netloc)
    /\ ~endswith(u.path, Denylist)

EligibleByNetloc(u) ==
    /\ is_valid(u)
    /\ u.netloc = BASE_URL.netloc
    /\ ~endswith(u.path, Denylist)

C4_CacheIdempotent ==
    [][/\ \A n \in DOMAIN files : n \in DOMAIN files' /\ files'[n] = files[n]
       /\ pc = "convert" /\ pc' = "links" =>
            \A i \in 1..Len(response.imgs) :
               LET img_url == urljoin(base_url_only, response.imgs[i])
                   n       == img_filename(img_url)
               IN  n \in DOMAIN files =>
                     /\ \A k \in (Len(log) + 1)..Len(log') : log'[k] # ImgEvent(img_url)
                     /\ Len(all_markdown_content') > Len(all_markdown_content) =>
                           Last(all_markdown_content').srcs[i] = n]_vars

\* A page was converted whose image was in the directory before the run:
\* the file is the old one, no request was made, the block names it.
C4_Witness ==
    /\ pc = "links"
    /\ Len(response.imgs) = 1
    /\ LET img_url == urljoin(base_url_only, response.imgs[1])
           n       == img_filename(img_url)
       IN  /\ n \in DOMAIN files
           /\ files[n] = "old"
           /\ \A k \in 1..Len(log) : log[k] # ImgEvent(img_url)
           /\ all_markdown_content # <<>>
           /\ Last(all_markdown_content).url = base_url_only
           /\ Last(all_markdown_content).srcs = <<n>>

\* Every page request of the run was answered with a page, and every
\* fetched page gave a block.
AllPagesConverted ==
    /\ \A i \in Gets : log[i].ok
    /\ \A i \in Gets : \E k \in 1..Len(all_markdown_content) :
          all_markdown_content[k].url = CleanUrl(log[i].url)

\* C5: on the two-page site (the root links to one subpage and to one
\* external page), a run in which the pages are fetched and converted ends
\* with two titles, one output file and no request to the external host.
C5_TwoPageSite ==
    (site = TwoPageSite /\ pc = "done" /\ AllPagesConverted) =>
        /\ Len(toc_entries) = 2
        /\ Len(output) = 1
        /\ Len(output[1].toc) = 2
        /\ \A i \in Gets : log[i].url.netloc = BASE_URL.netloc

C5_Witness ==
    /\ site = TwoPageSite
    /\ pc = "done"
    /\ AllPagesConverted
    /\ Len(toc_entries) = 2
    /\ \E i \in Gets : log[i].url.path = <<"/", "sub">>

\* C6: there is no retry: each canonical page URL (the URL without its
\* fragment) is requested at most once, as it is in visited_urls before it
\* is requested.
C6_AtMostOneGet ==
    /\ \A i \in Gets : CleanUrl(log[i].url) \in visited_urls
    /\ \A i \in Gets :
          Cardinality({j \in Gets : WithoutFragment(log[j].url) = WithoutFragment(log[i].url)}) <= 1

\* C7: a page fetch that fails adds no block and no title, enqueues no
\* link and leaves the URL in visited_urls; no block is ever added for that
\* page; the loop goes on and the output file is written.
C7_FailedFetchSkipped ==
    /\ [][pc = "fetch" /\ pc' = "loop" =>
            /\ all_markdown_content' = all_markdown_content
            /\ toc_entries' = toc_entries
            /\ urls_to_visit' = urls_to_visit
            /\ files' = files
            /\ base_url_only \in visited_urls'
            /\ visited_urls' = visited_urls]_vars
    /\ [](\A i \in Gets : ~log[i].ok =>
             \A k \in 1..Len(all_markdown_content) :
                all_markdown_content[k].url # CleanUrl(log[i].url))
    /\ (\E i \in Gets : ~log[i].ok) ~> (pc = "done" /\ Len(output) = 1)

\* A run has ended in which a fetch failed and a later one was answered.
C7_Witness ==
    /\ pc = "done"
    /\ Len(output) = 1
    /\ \E i, j \in Gets : i < j /\ ~log[i].ok /\ log[j].ok

\* C8: every run comes to an empty queue and ends by writing the output
\* file; it ends at the head of the loop exactly when the queue is empty.
C8_Terminates ==
    /\ <>(pc = "done")
    /\ [][pc = "loop" => (urls_to_visit = <<>> <=> pc' = "done")]_vars
    /\ [][pc' = "done" /\ pc # "done" =>
            urls_to_visit = <<>> /\ Len(output') = Len(output) + 1]_vars

\* A run has ended after three pages were requested.
C8_Witness ==
    /\ pc = "done"
    /\ urls_to_visit = <<>>
    /\ Cardinality(Gets) >= 3

\* The requests that were answered and whose page is the page of block k.
GetsOfBlock(k) ==
    {i \in Gets : log[i].ok /\ CleanUrl(log[i].url) = all_markdown_content[k].url}

\* C9: the blocks and the titles have one length, entry k of both is of one
\* page, each block is of one fetched page and each fetched page has at
\* most one block, and the blocks are in the order of the requests.
C9_BlocksAndTitles ==
    /\ Len(all_markdown_content) = Len(toc_entries)
    /\ \A k \in 1..Len(all_markdown_content) :
          /\ all_markdown_content[k].title = toc_entries[k]
          /\ Cardinality(GetsOfBlock(k)) = 1
    /\ \A k, l \in 1..Len(all_markdown_content) :
          k < l => \A i \in GetsOfBlock(k), j \in GetsOfBlock(l) : i < j

\* Two pages with one title were converted: there are two titles.
C9_Witness ==
    /\ Len(toc_entries) = 2
    /\ toc_entries[1] = toc_entries[2]
    /\ all_markdown_content[1].url # all_markdown_content[2].url

\* The number of output files written, as the log has it.
Writes == {i \in 1..Len(log) : log[i] = WriteEvent}

\* C10: the output file is written once, when the run ends, and only with
\* the queue empty; nothing is requested after it; a run that stopped
\* before has written no file.
C10_WrittenOnceAtEnd ==
    /\ Len(output) <= 1
    /\ Cardinality(Writes) = Len(output)
    /\ pc = "done" <=> Len(output) = 1
    /\ Len(output) = 1 => urls_to_visit = <<>> /\ Last(log) = WriteEvent
    /\ pc = "killed" => output = <<>>

\* A run was killed with URLs in the queue, after requests, no file written.
C10_KilledRun ==
    /\ pc = "killed"
    /\ urls_to_visit # <<>>
    /\ Gets # {}
    /\ output = <<>>

\* A run has ended and written the file after requests.
C10_Witness ==
    /\ pc = "done"
    /\ Len(output) = 1
    /\ \E i \in Gets : log[i].ok

\* The positions of the image requests in the log; the answer to a request
\* is the next entry.
ImgGets == {i \in 1..Len(log) : log[i].ev = "img"}

\* C11 as stated: for every image URL at most one request is made in a run,
\* whether or not the first request succeeded.
C11_OneRequestPerImage ==
    \A i, j \in ImgGets : i # j => log[i].url # log[j].url

\* C11, amended: for every image URL at most one request is made that
\* leaves a file at its cache path, and none is made once the file exists;
\* a request that left no file (another status than 200, or an exception
\* of the request) is made again when the image is referenced again.
C11_OneRequestPerCachedImage ==
    \A i, j \in ImgGets :
        (i < j /\ log[i].url = log[j].url) => log[i + 1].outcome \in {"status", "error"}

\* Two pages name one image in their blocks; it was requested once and the
\* file is whole.
C11_Witness ==
    /\ Len(all_markdown_content) = 2
    /\ all_markdown_content[1].srcs # <<>>
    /\ all_markdown_content[1].srcs = all_markdown_content[2].srcs
    /\ LET n == all_markdown_content[1].srcs[1]
       IN  /\ n \in DOMAIN files
           /\ files[n] = "whole"
           /\ Cardinality({i \in ImgGets : img_filename(log[i].url) = n}) = 1

\* C12: an image request that fails (another status than 200, an exception
\* of the request or of the stream) does not end the conversion of the
\* page: the step goes on to the links, a block that is added names the
\* local path, and no file is at the cache path of the image after the step.
C12_ImageFailureNoFile ==
    [][pc = "convert" /\ pc' = "links" =>
         \A k \in (Len(log) + 1)..Len(log') :
            (/\ log'[k].ev = "answer"
             /\ log'[k].outcome # "ok"
             /\ \A l \in (k + 1)..Len(log') : log'[l] # ImgEvent(log'[k].url)) =>
                /\ img_filename(log'[k].url) \notin DOMAIN files'
                /\ Len(all_markdown_content') > Len(all_markdown_content) =>
                      InList(img_filename(log'[k].url), Last(all_markdown_content').srcs)]_vars

\* The conversion step of a page caught an exception.
ConvertFailed == log' # <<>> /\ Last(log').ev = "error"

\* C13: a page without the selected region but with a <body> gives, unless
\* an exception is caught, a block and a title as a page with the region
\* does; a page without <body> gives neither, and the step goes on to the
\* links of the page.
C13_FallbackToBody ==
    [][pc = "convert" /\ pc' = "links" =>
         /\ (response.region \in {"main", "body"} /\ ~ConvertFailed) =>
               /\ Len(all_markdown_content') = Len(all_markdown_content) + 1
               /\ Last(all_markdown_content').url = base_url_only
               /\ Last(all_markdown_content').title = page_title(response.title)
               /\ toc_entries' = Append(toc_entries, page_title(response.title))
         /\ response.region = "none" =>
               /\ all_markdown_content' = all_markdown_content
               /\ toc_entries' = toc_entries]_vars

\* Two pages were fetched and no exception was caught; the first gave no
\* block, the second, which has no selected region but a <body>, gave one.
C13_Witness ==
    /\ pc = "links"
    /\ response.region = "body"
    /\ Cardinality({i \in 1..Len(log) : log[i].ev = "get" /\ log[i].ok}) = 2
    /\ \A i \in 1..Len(log) : log[i].ev # "error"
    /\ Len(all_markdown_content) = 1
    /\ all_markdown_content[1].url = base_url_only
    /\ toc_entries = <<page_title(response.title)>>

\* C14: the queue starts as the root URL alone; the loop takes the head of
\* the queue, and marks it visited and goes to fetch it unless its cleaned
\* form was visited; the links step adds at the tail only and no other step
\* changes the queue; the request of a page is for the URL popped last.
C14_Fifo ==
    /\ urls_to_visit = <<BASE_URL>>
    /\ visited_urls = {}
    /\ [][/\ (pc = "loop" /\ pc' \in {"loop", "fetch"}) =>
               /\ urls_to_visit # <<>>
               /\ url' = Head(urls_to_visit)
               /\ urls_to_visit' = Tail(urls_to_visit)
               /\ (pc' = "fetch") = (CleanUrl(url') \notin visited_urls)
               /\ visited_urls' = visited_urls \cup {CleanUrl(url')}
          /\ (pc = "links" /\ pc' = "sleep") =>
               /\ Len(urls_to_visit') >= Len(urls_to_visit)
               /\ SubSeq(urls_to_visit', 1, Len(urls_to_visit)) = urls_to_visit
          /\ (pc # "loop" /\ pc # "links") => urls_to_visit' = urls_to_visit
          /\ (pc = "fetch" /\ pc' \in {"loop", "convert"}) =>
               /\ Last(log').ev = "get"
               /\ Last(log').url = url]_vars

\* The first page had two links to pages; the first of them is being
\* fetched and the second is still in the queue.
C14_Witness ==
    /\ pc = "fetch"
    /\ Len(all_markdown_content) = 1
    /\ Len(all_markdown_content[1].links) = 2
    /\ Cardinality(visited_urls) = 2
    /\ url = CleanUrl(all_markdown_content[1].links[1])
    /\ urls_to_visit = <<CleanUrl(all_markdown_content[1].links[2])>>
    /\ url # urls_to_visit[1]

\* C15: the queue holds no entry twice and no entry whose form without the
\* fragment is in visited_urls.
C15_QueueInvariant ==
    /\ \A i, j \in 1..Len(urls_to_visit) : i # j => urls_to_visit[i] # urls_to_visit[j]
    /\ \A i \in 1..Len(urls_to_visit) : WithoutFragment(urls_to_visit[i]) \notin visited_urls

\* The same with the cleaning step of the code as the form of an entry.
C15_QueueInvariantCleaned ==
    /\ \A i, j \in 1..Len(urls_to_visit) : i # j => urls_to_visit[i] # urls_to_visit[j]
    /\ \A i \in 1..Len(urls_to_visit) : CleanUrl(urls_to_visit[i]) \notin visited_urls

\* The delay steps between two entries of the log.
SleepsBetween(i, j) == {k \in (i + 1)..(j - 1) : log[k] = SleepEvent}

\* Two requests of pages with no request of a page between them.
Consecutive(i, j) == i < j /\ \A k \in Gets : ~(i < k /\ k < j)

\* C16: between two consecutive requests of pages, the first successful or
\* failed, there is a delay step, and only one, however many images were
\* requested between them.
C16_DelayAfterEachFetch ==
    \A i, j \in Gets : Consecutive(i, j) => Cardinality(SleepsBetween(i, j)) = 1

\* The same for a first request that succeeded; after a failed one there is
\* no delay step.
C16_DelayAfterSuccessfulFetch ==
    \A i, j \in Gets :
        Consecutive(i, j) =>
            Cardinality(SleepsBetween(i, j)) = (IF log[i].ok THEN 1 ELSE 0)

SameButFragment(u, v) ==
    /\ u.scheme = v.scheme
    /\ u.netloc = v.netloc
    /\ u.path = v.path
    /\ u.query = v.query

\* C18: the cleaned form of a URL has the scheme, the host, the path and
\* the query of the URL: of the URL that is popped, and of every link that
\* the links step resolves; two links that differ in the query are two
\* entries of the queue.
C18_QueryPreserved ==
    /\ pc = "fetch" => SameButFragment(base_url_only, url)
    /\ pc = "links" =>
          \A k \in 1..Len(response.hrefs) :
             SameButFragment(Discovered(response.hrefs[k]), urljoin(BASE_URL, response.hrefs[k]))
    /\ pc = "sleep" =>
          \A k, l \in 1..Len(response.hrefs) :
             LET a == urljoin(BASE_URL, response.hrefs[k])
                 b == urljoin(BASE_URL, response.hrefs[l])
             IN  (/\ is_internal_link(a) /\ is_internal_link(b)
                  /\ a.query # b.query
                  /\ WithoutFragment(a) \notin visited_urls
                  /\ WithoutFragment(b) \notin visited_urls) =>
                    \E i, j \in 1..Len(urls_to_visit) :
                        /\ i # j
                        /\ SameButFragment(urls_to_visit[i], a)
                        /\ SameButFragment(urls_to_visit[j], b)

\* Two links that differ in the query only were found on the first page and
\* the queue holds one entry, without a query.
C18_QueryDropped ==
    /\ pc = "sleep"
    /\ Len(response.hrefs) = 2
    /\ response.hrefs[1].query # response.hrefs[2].query
    /\ response.hrefs[1].path = response.hrefs[2].path
    /\ Len(urls_to_visit) = 1
    /\ urls_to_visit[1].query = ""
    /\ SameButFragment(urls_to_visit[1], [urljoin(BASE_URL, response.hrefs[1]) EXCEPT !.query = ""])

\* C20: for every href of a page that was converted, the URL that the links
\* step resolves is, the fragment apart, the URL that the conversion wrote
\* into the block of the page.
C20_SameResolution ==
    (/\ pc = "links"
     /\ all_markdown_content # <<>>
     /\ Last(all_markdown_content).url = base_url_only
     /\ Last(log).ev # "error") =>
        \A k \in 1..Len(response.hrefs) :
            WithoutFragment(urljoin(BASE_URL, response.hrefs[k]))
                = WithoutFragment(Last(all_markdown_content).links[k])

\* The same for the root page, where the two resolutions agree.
C20_SameResolutionOfRoot ==
    (/\ pc = "links"
     /\ all_markdown_content # <<>>
     /\ Last(all_markdown_content).url = base_url_only
     /\ Last(log).ev # "error"
     /\ url = BASE_URL) =>
        \A k \in 1..Len(response.hrefs) :
            WithoutFragment(urljoin(BASE_URL, response.hrefs[k]))
                = WithoutFragment(Last(all_markdown_content).links[k])

\* C19: when the run has ended, visited_urls holds the root without its
\* fragment and, for every link written into the block of a fetched page,
\* the link without its fragment if it is eligible; and it holds nothing
\* but the root and eligible URLs without fragment.
C19_VisitedIsReachable ==
    pc = "done" =>
        /\ WithoutFragment(BASE_URL) \in visited_urls
        /\ \A k \in 1..Len(all_markdown_content) :
              \A l \in 1..Len(all_markdown_content[k].links) :
                 LET u == WithoutFragment(all_markdown_content[k].links[l])
                 IN  is_internal_link(u) => u \in visited_urls
        /\ \A v \in visited_urls :
              /\ v.frag = ""
              /\ v = WithoutFragment(BASE_URL) \/ is_internal_link(v)

\* What the run visits: the cleaned root and cleaned forms of links that
\* were resolved against the root, each eligible.
C19_VisitedIsDiscovered ==
    pc = "done" =>
        /\ CleanUrl(BASE_URL) \in visited_urls
        /\ \A v \in visited_urls : v = CleanUrl(BASE_URL) \/ is_internal_link(v)

====
